---- MODULE Spec2Model ----
(***************************************************************************)
(* SeineFish: the pull-request review bot.                                 *)
(*                                                                         *)
(* The module models the review orchestration pipeline of src/src:         *)
(*   - backend.py   Backend (provider selection at construction)           *)
(*   - main.py      the aiohttp webhook (handle_github_event), its own     *)
(*                  event handlers, review_pull_request and the reply      *)
(*                  analyses, summarize_reviews, generate_review_body      *)
(*   - handlers.py  the same four event handlers, calling into utils.py    *)
(*   - utils.py     review_pull_request and the analyses built on the      *)
(*                  prompt templates of prompts.py                         *)
(*   - helpers.py   get_file_content                                       *)
(*                                                                         *)
(* Text is a sequence of strings.  The text the code inspects character by *)
(* character (a backend reply, a comment body) is a sequence of            *)
(* one-character strings; the pieces of an f-string and the values the     *)
(* code only copies (a file name, a status, a title) are single elements.  *)
(***************************************************************************)
EXTENDS Integers, Sequences, FiniteSets, TLC

VARIABLES
    env,            \* the process environment: the variables the program reads
    boot,           \* how far module loading / start-up has come
    utils_backend,  \* utils.backend (utils.py:24): the provider chosen, or "none"
    main_backend,   \* main.backend (main.py:21): the provider chosen, or "none"
    pc,             \* per delivery: where its coroutine stands
    ev,             \* per delivery: entry point, event-type header and payload
    changed_files,  \* per delivery: review_pull_request's changed_files
    file_reviews,   \* per delivery: review_pull_request's file_reviews
    entered,        \* per delivery: orchestration entry points entered, with arguments
    calls,          \* per delivery: calls made to the collaborators
    prompts,        \* per delivery: the prompts handed to backend.generate
    posted,         \* per delivery: the artifacts posted to the host
    resp,           \* per delivery: the outcome handed back to the caller
    sr_items,       \* summarize_reviews called on its own: the argument
    sr_out,         \* summarize_reviews called on its own: the result
    hp_text,        \* a helper of helpers.py called on its own: the text
    hp_done,        \* the helper that was called, or "none"
    hp_name,        \* extract_function_code's function_name
    hp_out          \* the helper's result

vars == <<env, boot, utils_backend, main_backend, pc, ev, changed_files,
          file_reviews, entered, calls, prompts, posted, resp, sr_items, sr_out,
          hp_text, hp_done, hp_name, hp_out>>

sysVars == <<env, boot, utils_backend, main_backend, pc, ev, changed_files,
             file_reviews, entered, calls, prompts, posted, resp>>

srVars == <<sr_items, sr_out>>

hpVars == <<hp_text, hp_done, hp_name, hp_out>>

\* The variables of the functions that are called on their own.
pureVars == <<srVars, hpVars>>

(***************************************************************************)
(* Bounds of the model.                                                    *)
(***************************************************************************)
\* Most lines of a text handed to the helpers of helpers.py.
MaxLines == 4

\* Longest changed-file list the host returns for a pull request.
MaxFiles == 2

\* Longest list summarize_reviews is called on when it is checked on its own.
MaxItems == 3

(***************************************************************************)
(* Text helpers: Python's str operations on sequences of characters.       *)
(***************************************************************************)
UpperLetters == <<"A","B","C","D","E","F","G","H","I","J","K","L","M",
                  "N","O","P","Q","R","S","T","U","V","W","X","Y","Z">>

LowerLetters == <<"a","b","c","d","e","f","g","h","i","j","k","l","m",
                  "n","o","p","q","r","s","t","u","v","w","x","y","z">>

\* One character of str.lower().
LowerChar(c) ==
    IF \E i \in DOMAIN UpperLetters : UpperLetters[i] = c
    THEN LowerLetters[CHOOSE i \in DOMAIN UpperLetters : UpperLetters[i] = c]
    ELSE c

\* A lower() that leaves the text as it is: the case-sensitive test.
LowerIdentity(s) == s

\* str.lower()
Lower(s) == [i \in DOMAIN s |-> LowerChar(s[i])]

\* needle in hay
Contains(hay, needle) ==
    \E p \in 1..(Len(hay) - Len(needle) + 1) :
        SubSeq(hay, p, p + Len(needle) - 1) = needle

\* The characters str.strip() removes from both ends.
Whitespace == {" ", "\n", "\t", "\r", "\f"}

\* str.strip()
Strip(s) ==
    LET keep == {i \in DOMAIN s : s[i] \notin Whitespace}
    IN  IF keep = {} THEN <<>>
        ELSE LET lo == CHOOSE i \in keep : \A j \in keep : i <= j
                 hi == CHOOSE i \in keep : \A j \in keep : i >= j
             IN  SubSeq(s, lo, hi)

RECURSIVE Join(_, _)
\* sep.join(parts)
Join(parts, sep) ==
    IF parts = <<>> THEN <<>>
    ELSE IF Len(parts) = 1 THEN parts[1]
    ELSE parts[1] \o sep \o Join(Tail(parts), sep)

\* The marker whose presence in a review text counts as an issue.
IssueMarker == <<"i","s","s","u","e">>

(***************************************************************************)
(* The values the collaborators hand to the program.                       *)
(***************************************************************************)
\* The files of a pull request as the host's file-list API describes them.
FilePool ==
    { [filename |-> "a.py", status |-> "modified", changes |-> 3,
       additions |-> 2, deletions |-> 1, diff |-> "diff-a"],
      [filename |-> "b.py", status |-> "added", changes |-> 1,
       additions |-> 1, deletions |-> 0, diff |-> "diff-b"],
      [filename |-> "c.md", status |-> "removed", changes |-> 4,
       additions |-> 0, deletions |-> 4, diff |-> "diff-c"] }

\* Texts a backend may generate.
ReviewTexts ==
    { <<"o","k">>,
      <<" ","L","G","T","M","\n">>,
      <<"I","s","s","u","e",":"," ","x">>,
      <<"i","s","s","u","e"," ","I","S","S","U","E">>,
      <<"i","s"," ","s","u","e">> }

\* Lists of length 0..n over S.
SeqsUpTo(S, n) == UNION {[1..k -> S] : k \in 0..n}

(***************************************************************************)
(* summarize_reviews (utils.py:273, the same text as main.py:327).         *)
(***************************************************************************)
\* f"### {file_review['filename']} ({file_review['status']}):"
Heading(file_review) ==
    <<"### ", file_review.filename, " (", file_review.status, "):">>

\* f"- **Review:** {file_review['review']}"
ReviewLine(file_review) == <<"- **Review:** ">> \o file_review.review

\* 'issue' in file_review['review'].lower()
HasIssue(review) == Contains(Lower(review), IssueMarker)

RECURSIVE SummaryPartsNewestFirst(_)
\* The list `summary` when each item's two entries are put in front.
SummaryPartsNewestFirst(reviews) ==
    IF reviews = <<>> THEN <<>>
    ELSE SummaryPartsNewestFirst(Tail(reviews))
         \o <<Heading(Head(reviews)), ReviewLine(Head(reviews))>>

RECURSIVE SummaryParts(_)
\* The list `summary` after the loop: two entries per item, in loop order.
SummaryParts(reviews) ==
    IF reviews = <<>> THEN <<>>
    ELSE <<Heading(Head(reviews)), ReviewLine(Head(reviews))>>
         \o SummaryParts(Tail(reviews))

RECURSIVE IssuesCount(_)
\* issues_count after the loop.
IssuesCount(reviews) ==
    IF reviews = <<>> THEN 0
    ELSE (IF HasIssue(Head(reviews).review) THEN 1 ELSE 0)
         + IssuesCount(Tail(reviews))

\* The mapping with its second test off by one: issues_count <= 3.
RatingOfInclusive(issues_count) ==
    IF issues_count = 0 THEN "GOOD"
    ELSE IF issues_count <= 3 THEN "NEEDS FURTHER TRIAGE"
    ELSE "BAD"

\* The if / elif / else that maps issues_count to the rating.
RatingOf(issues_count) ==
    IF issues_count = 0 THEN "GOOD"
    ELSE IF issues_count < 3 THEN "NEEDS FURTHER TRIAGE"
    ELSE "BAD"

\* A summarize_reviews with a case of its own for the empty list: a line of
\* text for the summary and no rating.
SummarizeReviewsNoFiles(reviews) ==
    IF reviews = <<>>
    THEN [summary |-> <<"No files changed.">>, issues_count |-> 0,
          rating |-> "UNRATED"]
    ELSE [summary      |-> Join(SummaryParts(reviews), <<"\n">>),
          issues_count |-> IssuesCount(reviews),
          rating       |-> RatingOf(IssuesCount(reviews))]

\* summarize_reviews(file_reviews): ("\n".join(summary), rating); the local
\* issues_count is kept in the result for the properties that speak of it.
SummarizeReviews(reviews) ==
    [summary      |-> Join(SummaryParts(reviews), <<"\n">>),
     issues_count |-> IssuesCount(reviews),
     rating       |-> RatingOf(IssuesCount(reviews))]

(***************************************************************************)
(* summarize_reviews on its own: every list of up to MaxItems items.       *)
(***************************************************************************)
\* A file review: the file's fields and the review text (review_file's dict).
FileReview(file, review) ==
    [filename |-> file.filename, status |-> file.status,
     changes |-> file.changes, additions |-> file.additions,
     deletions |-> file.deletions, review |-> review]

\* The items summarize_reviews is called on: two files of the pool, each
\* with every review text (a list may hold the same file more than once).
ItemPool ==
    {FileReview(f, t) :
        f \in {g \in FilePool : g.filename # "c.md"}, t \in ReviewTexts}

NotCalled == [summary |-> <<"<not called>">>, issues_count |-> -1,
              rating |-> "<not called>"]


(***************************************************************************)
(* backend.py: Backend.__init__ and Backend.choose_backend.                *)
(***************************************************************************)
\* os.getenv of a variable that is not set: None.
Unset == "<unset>"

EnvValues == {Unset, "", "key"}

\* Python's truth value of an environment value: None and "" are false.
Truthy(v) == v # Unset /\ v # ""

\* A choose_backend whose last branch hands out the commercial provider
\* instead of raising.
ChooseBackendNoRaise(watsonx_api_key, openai_api_key) ==
    IF Truthy(watsonx_api_key) THEN "watsonx" ELSE "openai"

\* choose_backend: the provider constructed, or the ValueError raised.
ChooseBackend(watsonx_api_key, openai_api_key) ==
    IF Truthy(watsonx_api_key) THEN "watsonx"
    ELSE IF Truthy(openai_api_key) THEN "openai"
    ELSE "ValueError"

\* Backend(): reads the three variables and chooses.
NewBackend == ChooseBackend(env.WATSONX_API_KEY, env.OPENAI_API_KEY)

(***************************************************************************)
(* Deliveries.                                                             *)
(***************************************************************************)
\* The coroutines that can be in flight.
Slots == {1, 2}

\* Values of the X-GitHub-Event header; "<absent>" is a request without it.
Headers == {"<absent>", "ping", "pull_request", "pull_request_review_comment",
            "pull_request_review", "pull_request_review_thread", "issues"}

RecognizedTypes == {"pull_request", "pull_request_review_comment",
                    "pull_request_review", "pull_request_review_thread"}

\* Values of the payload's action.
Actions == {"opened", "edited", "synchronize", "closed", "created",
            "deleted", "submitted", "resolved", "unresolved"}

\* The one repository the deliveries are about.
RepoName == "seine/fish"

PullNumbers == {1, 2}

\* Identifiers of comments, reviews and threads.
ObjectIds == {7, 8}

\* request.headers.get('X-GitHub-Event', 'ping')
EventType(hdr) == IF hdr = "<absent>" THEN "ping" ELSE hdr

\* Trigger lists in which a closed pull request is reviewed too.
TriggerActionsWithClosed(event_type) ==
    CASE event_type = "pull_request" ->
            {"opened", "edited", "synchronize", "closed"}
      [] event_type = "pull_request_review_comment" -> {"created", "edited"}
      [] event_type = "pull_request_review" -> {"submitted", "edited"}
      [] event_type = "pull_request_review_thread" -> {"resolved", "unresolved"}
      [] OTHER -> {}

\* Trigger lists in which an edited pull request is not reviewed.
TriggerActionsNoEdited(event_type) ==
    CASE event_type = "pull_request" -> {"opened", "synchronize"}
      [] event_type = "pull_request_review_comment" -> {"created", "edited"}
      [] event_type = "pull_request_review" -> {"submitted", "edited"}
      [] event_type = "pull_request_review_thread" -> {"resolved", "unresolved"}
      [] OTHER -> {}

\* The `if action in [...]` list of each event handler (main.py:39, 58, 77,
\* 96; handlers.py:26, 44, 62, 80 hold the same lists).
TriggerActions(event_type) ==
    CASE event_type = "pull_request" -> {"opened", "edited", "synchronize"}
      [] event_type = "pull_request_review_comment" -> {"created", "edited"}
      [] event_type = "pull_request_review" -> {"submitted", "edited"}
      [] event_type = "pull_request_review_thread" -> {"resolved", "unresolved"}
      [] OTHER -> {}

\* The text of the 200 response of each recognized event type.
HandledText(event_type) ==
    CASE event_type = "pull_request" -> "Pull request event handled"
      [] event_type = "pull_request_review_comment" ->
            "Pull request review comment event handled"
      [] event_type = "pull_request_review" -> "Pull request review event handled"
      [] event_type = "pull_request_review_thread" ->
            "Pull request review thread event handled"

\* json: whether the request body decodes (request.json(), main.py:429); the
\* payload fields of a body that does not decode mean nothing.
NoEvent == [via |-> "none", hdr |-> "<absent>", json |-> FALSE,
            action |-> "opened", repo |-> RepoName, number |-> 1, id |-> 7]

\* Counters of a delivery's calls to the collaborators; not_found counts the
\* content requests the host answered with not-found.
NoCalls == [host |-> 0, fetch |-> 0, generate |-> 0, publish |-> 0,
            not_found |-> 0]

NoResp == [outcome |-> "none", status |-> 0, text |-> "", error |-> ""]

\* web.Response(text=..., status=...)
Response(status, text) ==
    [outcome |-> "response", status |-> status, text |-> text, error |-> ""]

\* A handler of handlers.py that ran to its end: it returns None.
Returned == [outcome |-> "returned", status |-> 0, text |-> "", error |-> ""]

\* An exception that is caught and answered like a handled event.
RaisedSwallowed(via, error) ==
    IF via = "webhook" THEN Response(200, "Pull request event handled")
    ELSE Returned

\* An exception that leaves the entry point.  The web framework answers an
\* exception that leaves handle_github_event with a 500 response.
Raised(via, error) ==
    [outcome |-> "raised", status |-> IF via = "webhook" THEN 500 ELSE 0,
     text |-> IF via = "webhook" THEN "500 Internal Server Error" ELSE "",
     error |-> error]

\* The outcome of an event handler that ran to its end.
Completed(event) ==
    IF event.via = "webhook" THEN Response(200, HandledText(event.hdr))
    ELSE Returned

Upd(f, d, v) == [f EXCEPT ![d] = v]

\* The new values of one delivery's variables.
Set(d, p, cf, fr, en, ca, pm, po, rs) ==
    /\ pc' = Upd(pc, d, p)
    /\ changed_files' = Upd(changed_files, d, cf)
    /\ file_reviews' = Upd(file_reviews, d, fr)
    /\ entered' = Upd(entered, d, en)
    /\ calls' = Upd(calls, d, ca)
    /\ prompts' = Upd(prompts, d, pm)
    /\ posted' = Upd(posted, d, po)
    /\ resp' = Upd(resp, d, rs)

\* An end of the delivery at which what has been reviewed so far is
\* published all the same.
FinishPublishingPartial(d, rs) ==
    Set(d, "done", changed_files[d], file_reviews[d], entered[d],
        [calls[d] EXCEPT !.publish = @ + 1], prompts[d],
        Append(posted[d], [kind |-> "review", number |-> ev[d].number,
                           target |-> ev[d].number, body |-> <<"partial">>]),
        rs)

\* The delivery ends here and touches nothing but its outcome.
Finish(d, rs) ==
    Set(d, "done", changed_files[d], file_reviews[d], entered[d], calls[d],
        prompts[d], posted[d], rs)


(***************************************************************************)
(* What the host and the backend answer.                                   *)
(***************************************************************************)
\* The changed-file lists the host returns: no file is listed twice.
HostFileLists ==
    {l \in SeqsUpTo(FilePool, MaxFiles) :
        \A i, j \in DOMAIN l : l[i].filename = l[j].filename => i = j}

\* title, user.login, body and html_url of a pull request.
PullMetadata(number) ==
    [title       |-> IF number = 1 THEN "Fix parser" ELSE "Add cache",
     author      |-> "octocat",
     description |-> "what changed",
     url         |-> IF number = 1 THEN "https://host/pull/1"
                                   ELSE "https://host/pull/2"]

\* The decoded content of a file at the head revision.
FileContent(filename) ==
    CASE filename = "a.py" -> "content-a"
      [] filename = "b.py" -> "content-b"
      [] OTHER -> "content-c"

\* The backend's answers inside a delivery: str values (WatsonxLLM._call
\* returns generate_text's result, backend.py:16-22).
BackendReplies ==
    { <<" ","L","G","T","M","\n">>,
      <<"I","s","s","u","e",":"," ","x">> }

\* Bodies of review comments and of reviews.
CommentBodies ==
    { <<"@","a","l"," ","f","i","x"," ","i","t">>,
      <<"o","k">> }

\* The comments of a review thread, oldest first.
ThreadPool ==
    { <<>>,
      <<[id |-> 7, body |-> <<"w","h","y">>]>>,
      <<[id |-> 7, body |-> <<"w","h","y">>],
        [id |-> 8, body |-> <<"@","b","o"," ","d","o","n","e">>]>> }

(***************************************************************************)
(* generate_review_body (main.py:390, the same text as utils.py:336).      *)
(***************************************************************************)
RECURSIVE ChangedFileLines(_)
\* The two lines the body holds for each file review, in list order.
ChangedFileLines(reviews) ==
    IF reviews = <<>> THEN <<>>
    ELSE LET file == Head(reviews)
         IN  <<"- **", file.filename, "** (", file.status, "): ",
               ToString(file.changes), " changes\n",
               "  - Additions: ", ToString(file.additions),
               ", Deletions: ", ToString(file.deletions), "\n">>
             \o ChangedFileLines(Tail(reviews))

GenerateReviewBody(metadata, reviews, review_summary, rating) ==
    <<"### Pull Request Review for [", metadata.title, "](", metadata.url, ")\n",
      "**Author:** ", metadata.author, "\n\n",
      "**Description:**\n", metadata.description, "\n\n",
      "#### Changed Files:\n">>
    \o ChangedFileLines(reviews)
    \o <<"\n### Review Summary:\n">> \o review_summary \o <<"\n">>
    \o <<"\n### Rating: ", rating, "\n">>

(***************************************************************************)
(* Prompts.  main.py builds its prompts with f-strings; utils.py fills the *)
(* templates of prompts.py with str.format.                                *)
(***************************************************************************)
\* The replacement fields that occur in the templates of prompts.py.
Fields == {"{filename}", "{file_content}", "{file_diff}",
           "{similar_commit_texts}", "{function_name}",
           "{original_function_code}", "{function_diff}", "{comment_body}",
           "{diff_hunk}", "{review_body}", "{thread_comments}"}

ANALYZE_FILE_CHANGE_PROMPT ==
    <<"\nAnalyze the following file change in ", "{filename}",
      ", based on the similar commits and the code changes: (...)\nFile content:\n",
      "{file_content}", "\nChanges:\n", "{file_diff}",
      "\nPrior similar commits:\n", "{similar_commit_texts}", "\n">>

ANALYZE_REVIEW_COMMENT_PROMPT ==
    <<"\nAnalyze the following pull request review comment (...)\nReview Comment:\n",
      "{comment_body}", "\nWith the diff hunk:\n", "{diff_hunk}", "\n">>

ANALYZE_PULL_REQUEST_REVIEW_PROMPT ==
    <<"\nAnalyze the following pull request review:\n", "{review_body}", "\n">>

ANALYZE_REVIEW_THREAD_PROMPT ==
    <<"\nAnalyze the following pull request review thread:\n",
      "{thread_comments}", "\n">>

RECURSIVE Substitute(_, _)
Substitute(template, args) ==
    IF template = <<>> THEN <<>>
    ELSE (IF Head(template) \in DOMAIN args THEN args[Head(template)]
          ELSE <<Head(template)>>)
         \o Substitute(Tail(template), args)

\* str.format with the keyword arguments args: KeyError when the template names a field that
\* args does not give.
Format(template, args) ==
    IF \E i \in DOMAIN template :
           template[i] \in Fields /\ template[i] \notin DOMAIN args
    THEN [ok |-> FALSE, text |-> <<>>]
    ELSE [ok |-> TRUE, text |-> Substitute(template, args)]

\* analyze_file_change's prompt: main.py:194 (an f-string; its code fences
\* are written ~~~ here) and utils.py:121 (ANALYZE_FILE_CHANGE_PROMPT.format).
FileChangePrompt(via, file, file_content) ==
    IF via = "webhook"
    THEN [ok |-> TRUE,
          text |-> <<"Analyze the following file change in ", file.filename,
                     ":\n\nFile content:\n~~~python\n", file_content,
                     "\n~~~\n\nChanges:\n~~~diff\n", file.diff, "\n~~~">>]
    ELSE Format(ANALYZE_FILE_CHANGE_PROMPT,
                [x \in {"{filename}", "{file_content}", "{file_diff}"} |->
                    CASE x = "{filename}" -> <<file.filename>>
                      [] x = "{file_content}" -> <<file_content>>
                      [] x = "{file_diff}" -> <<file.diff>>])


(***************************************************************************)
(* Start-up: module loading, as main.py runs it.                           *)
(***************************************************************************)
IdleDeliveries ==
    /\ pc = [d \in Slots |-> "idle"]
    /\ ev = [d \in Slots |-> NoEvent]
    /\ changed_files = [d \in Slots |-> <<>>]
    /\ file_reviews = [d \in Slots |-> <<>>]
    /\ entered = [d \in Slots |-> <<>>]
    /\ calls = [d \in Slots |-> NoCalls]
    /\ prompts = [d \in Slots |-> <<>>]
    /\ posted = [d \in Slots |-> <<>>]
    /\ resp = [d \in Slots |-> NoResp]

\* No helper of helpers.py has been called on its own.
HelpersIdle ==
    /\ hp_text = <<>>
    /\ hp_done = "none"
    /\ hp_name = <<>>
    /\ hp_out = <<>>

Init ==
    /\ env \in [OPENAI_API_KEY : EnvValues, WATSONX_API_KEY : EnvValues,
                WATSONX_PROJECT_ID : {Unset, "project"}]
    /\ boot = "start"
    /\ utils_backend = "none"
    /\ main_backend = "none"
    /\ IdleDeliveries
    /\ sr_items = <<>>
    /\ sr_out = NotCalled
    /\ HelpersIdle

delivVars == <<pc, ev, changed_files, file_reviews, entered, calls, prompts,
               posted, resp>>

\* main.py:8 imports utils, whose module body constructs utils.backend
\* (utils.py:24); a ValueError there ends the import of main.
LoadUtils ==
    /\ boot = "start"
    /\ IF NewBackend = "ValueError"
       THEN boot' = "config_error" /\ UNCHANGED utils_backend
       ELSE boot' = "utils_loaded" /\ utils_backend' = NewBackend
    /\ UNCHANGED <<env, main_backend, delivVars, pureVars>>

\* main.py:18-21: the host client and main.backend.
LoadMain ==
    /\ boot = "utils_loaded"
    /\ IF NewBackend = "ValueError"
       THEN boot' = "config_error" /\ UNCHANGED main_backend
       ELSE boot' = "main_loaded" /\ main_backend' = NewBackend
    /\ UNCHANGED <<env, utils_backend, delivVars, pureVars>>

\* main.py:455-456: the application and its route.
CreateApp ==
    /\ boot = "main_loaded"
    /\ boot' = "app_created"
    /\ UNCHANGED <<env, utils_backend, main_backend, delivVars, pureVars>>

\* os.getenv(name): None for a variable the environment does not hold.
Getenv(name) == IF name \in DOMAIN env THEN env[name] ELSE Unset

\* What calling a coroutine function without awaiting it leaves: a coroutine
\* object of which no statement has run, dropped at once.
NeverAwaited ==
    [outcome |-> "never_awaited", status |-> 0, text |-> "",
     error |-> "RuntimeWarning: coroutine was never awaited"]

\* handle_..._event(event) as main.py:475-481 calls it: the call of a
\* coroutine function, not awaited and not given to a loop.
CallFromMain(event) ==
    /\ ev' = Upd(ev, 1, event)
    /\ Set(1, "done", <<>>, <<>>, <<>>, NoCalls, <<>>, <<>>, NeverAwaited)

\* The block under __main__ (main.py:459-483): the options are read from
\* the environment; for a recognized event name the event file is opened
\* and decoded, which can raise, and the handler of that name is called;
\* then web.run_app starts serving.
RunApp ==
    /\ boot = "app_created"
    /\ UNCHANGED <<env, utils_backend, main_backend, pureVars>>
    /\ LET github_event_name == Getenv("GITHUB_EVENT_NAME")
           github_event_path == Getenv("GITHUB_EVENT_PATH")
       IN  IF github_event_name \notin RecognizedTypes
           THEN /\ boot' = "serving"
                /\ UNCHANGED delivVars
           ELSE IF github_event_path = Unset
           THEN /\ boot' = "TypeError"          \* open(None, 'r')
                /\ UNCHANGED delivVars
           ELSE \/ /\ boot' \in {"FileNotFoundError", "JSONDecodeError"}
                   /\ UNCHANGED delivVars
                \/ /\ boot' = "serving"
                   /\ \E action \in Actions, number \in PullNumbers,
                         id \in ObjectIds :
                         CallFromMain([via |-> "main",
                                       hdr |-> github_event_name,
                                       json |-> TRUE, action |-> action,
                                       repo |-> RepoName, number |-> number,
                                       id |-> id])

bootVars == <<env, boot, utils_backend, main_backend>>

(***************************************************************************)
(* The full review: review_pull_request, review_file, analyze_file_change. *)
(***************************************************************************)
\* A count in which every analysis reaches the backend twice.
BumpGenerateTwice(ca, field) ==
    [ca EXCEPT ![field] = IF field = "generate" THEN @ + 2 ELSE @ + 1]

\* One more call to a collaborator.
Bump(ca, field) == [ca EXCEPT ![field] = @ + 1]

EntryPoint(fn, event, id) ==
    [fn |-> fn, repo |-> event.repo, number |-> event.number, id |-> id]

\* A publication that is attempted a second time when the first attempt
\* fails.
FinishReviewRetrying(d, cf, frs, en, ca, pm) ==
    LET s    == SummarizeReviews(frs)
        body == GenerateReviewBody(PullMetadata(ev[d].number), frs,
                                   s.summary, s.rating)
        art  == [kind |-> "review", number |-> ev[d].number,
                 target |-> ev[d].number, body |-> body]
    IN  \/ Set(d, "done", cf, frs, en, Bump(ca, "publish"), pm,
               Append(posted[d], art), Completed(ev[d]))
        \/ Set(d, "done", cf, frs, en, Bump(Bump(ca, "publish"), "publish"),
               pm, Append(posted[d], art), Completed(ev[d]))
        \/ Set(d, "done", cf, frs, en, Bump(Bump(ca, "publish"), "publish"),
               pm, posted[d], Raised(ev[d].via, "PublishError"))

\* main.py:143-151 / utils.py:70-78: summarize, build the body, create the
\* review; the handler then returns.
FinishReview(d, cf, frs, en, ca, pm) ==
    LET s    == SummarizeReviews(frs)
        body == GenerateReviewBody(PullMetadata(ev[d].number), frs,
                                   s.summary, s.rating)
        art  == [kind |-> "review", number |-> ev[d].number,
                 target |-> ev[d].number, body |-> body]
    IN  \/ Set(d, "done", cf, frs, en, Bump(ca, "publish"), pm,
               Append(posted[d], art), Completed(ev[d]))
        \/ Set(d, "done", cf, frs, en, Bump(ca, "publish"), pm,
               posted[d], Raised(ev[d].via, "PublishError"))

\* A review_pull_request that remembers what was published: it skips a pull
\* request for which a finished delivery has a review already.
ReviewPullRequestOnce(d) ==
    LET en == Append(entered[d], EntryPoint("review_pull_request", ev[d], 0))
        ca == Bump(calls[d], "host")
    IN  IF \E e \in Slots \ {d} :
              /\ pc[e] = "done"
              /\ ev[e].number = ev[d].number
              /\ posted[e] # <<>>
        THEN Finish(d, Completed(ev[d]))
        ELSE \/ Set(d, "done", <<>>, <<>>, en, ca, prompts[d], posted[d],
                    Raised(ev[d].via, "HostError"))
             \/ \E fl \in HostFileLists :
                   IF fl = <<>>
                   THEN FinishReview(d, fl, <<>>, en, ca, prompts[d])
                   ELSE Set(d, "fetching", fl, <<>>, en, Bump(ca, "fetch"),
                            prompts[d], posted[d], NoResp)

\* review_pull_request up to its first suspension (main.py:108-140,
\* utils.py:35-67): the pull request, its metadata and its files are read
\* from the host, then the first file's content is asked for.
ReviewPullRequest(d) ==
    LET en == Append(entered[d], EntryPoint("review_pull_request", ev[d], 0))
        ca == Bump(calls[d], "host")
    IN  \/ Set(d, "done", <<>>, <<>>, en, ca, prompts[d], posted[d],
               Raised(ev[d].via, "HostError"))
        \/ \E fl \in HostFileLists :
              IF fl = <<>>
              THEN FinishReview(d, fl, <<>>, en, ca, prompts[d])
              ELSE Set(d, "fetching", fl, <<>>, en, Bump(ca, "fetch"),
                       prompts[d], posted[d], NoResp)

\* A file_reviews that is one list of the module, which every call in flight
\* appends to.
FileReviewsOfModule(d) == file_reviews[1] \o file_reviews[2]

\* file_reviews of the call of review_pull_request that serves delivery d: a
\* local, created by the call (main.py:138, utils.py:65).
FileReviewsOf(d) == file_reviews[d]

\* The list file_reviews after file_reviews.append(file_review), put at the
\* front instead.
RecordReviewInFront(reviews, file_review) == <<file_review>> \o reviews

\* file_reviews.append(file_review) (main.py:141, utils.py:68)
RecordReview(reviews, file_review) == Append(reviews, file_review)

\* The host's base64 encoding of a content and base64.b64decode(...).decode.
B64Encode(text) == <<"base64", text>>
B64Decode(encoded) == encoded[2]

\* What the host's contents API answers for a path at the head revision: the
\* file with its encoded content, or not-found, a body with no content field.
HostContentAnswers(filename) ==
    { [content |-> B64Encode(FileContent(filename))],
      [message |-> "Not Found"] }

\* get_file_content once the response body is decoded (helpers.py:27-31):
\* file_data["content"] is read whatever the answer was.
GetFileContent(file_data) ==
    IF "content" \in DOMAIN file_data
    THEN [ok |-> TRUE, text |-> B64Decode(file_data.content), error |-> ""]
    ELSE [ok |-> FALSE, text |-> "", error |-> "KeyError: content"]

\* get_file_content returns or raises (helpers.py:11-31), and the loop of
\* review_pull_request goes on to the next suspension: review_file and
\* analyze_file_change for this file, then the next file's fetch or, after
\* the last file, the summary and the publication.  The suspensions inside
\* get_file_content (session, request, body) are taken as one.
FetchReturn(d) ==
    /\ pc[d] = "fetching"
    /\ UNCHANGED <<bootVars, ev, pureVars>>
    /\ LET i    == calls[d].fetch     \* the loop is at its i-th file
           file == changed_files[d][i]
           via  == ev[d].via
       IN  \/ Finish(d, Raised(via, "ClientError"))
           \/ \E file_data \in HostContentAnswers(file.filename) :
                 LET got  == GetFileContent(file_data)
                     seen == IF "content" \in DOMAIN file_data THEN calls[d]
                             ELSE Bump(calls[d], "not_found")
                     pr   == FileChangePrompt(via, file, got.text)
                     pm   == Append(prompts[d], pr.text)
                     ca   == Bump(seen, "generate")
                 IN  IF ~got.ok
                     THEN Set(d, "done", changed_files[d], file_reviews[d],
                              entered[d], seen, prompts[d], posted[d],
                              Raised(via, got.error))
                     ELSE
                     \/ /\ ~pr.ok
                        /\ Set(d, "done", changed_files[d], file_reviews[d],
                               entered[d], seen, prompts[d], posted[d],
                               Raised(via, "KeyError: similar_commit_texts"))
                     \/ /\ pr.ok
                        /\ Set(d, "done", changed_files[d], file_reviews[d],
                               entered[d], ca, pm, posted[d],
                               Raised(via, "BackendError"))
                     \/ /\ pr.ok
                        /\ \E r \in BackendReplies :
                              LET frs == RecordReview(FileReviewsOf(d),
                                             FileReview(file, Strip(r)))
                              IN  IF i < Len(changed_files[d])
                                  THEN Set(d, "fetching", changed_files[d],
                                           frs, entered[d], Bump(ca, "fetch"),
                                           pm, posted[d], NoResp)
                                  ELSE FinishReview(d, changed_files[d], frs,
                                                    entered[d], ca, pm)


(***************************************************************************)
(* The reply analyses of main.py (main.py:260-324).  None of them          *)
(* suspends: each runs from its call to its end in one step.               *)
(***************************************************************************)
RECURSIVE Bodies(_)
\* [comment.body for comment in thread.comments]
Bodies(comments) ==
    IF comments = <<>> THEN <<>>
    ELSE <<Head(comments).body>> \o Bodies(Tail(comments))

\* The text main.py's analyses take the reply from:
\* response['choices'][0]['text'].  The response is the str that
\* Backend.generate returns, and a str subscripted with 'choices' raises
\* TypeError.
ChoicesText(response) == [ok |-> FALSE, error |-> "TypeError: str indices"]

\* One of main.py's three analyses, given the prompt it builds from what the
\* host returned: backend.generate is called, and taking the text out of
\* its response raises before anything is posted.
MainAnalysis(d, fn, prompt) ==
    LET en == Append(entered[d], EntryPoint(fn, ev[d], ev[d].id))
        ca == Bump(calls[d], "host")
        pm == Append(prompts[d], prompt)
    IN  \/ Set(d, "done", <<>>, <<>>, en, Bump(ca, "generate"), pm,
               posted[d], Raised(ev[d].via, "BackendError"))
        \/ \E r \in BackendReplies :
              /\ ~ChoicesText(r).ok
              /\ Set(d, "done", <<>>, <<>>, en, Bump(ca, "generate"), pm,
                     posted[d], Raised(ev[d].via, ChoicesText(r).error))

\* An analysis whose read of the comment, review or thread fails at the host.
HostReadFails(d, fn) ==
    Set(d, "done", <<>>, <<>>,
        Append(entered[d], EntryPoint(fn, ev[d], ev[d].id)),
        Bump(calls[d], "host"), prompts[d], posted[d],
        Raised(ev[d].via, "HostError"))

\* main.py:260-279
MainAnalyzeReviewComment(d) ==
    \/ HostReadFails(d, "analyze_review_comment")
    \/ \E comment_body \in CommentBodies :
          MainAnalysis(d, "analyze_review_comment",
              <<"Analyze the following pull request review comment:\n\n">>
              \o comment_body \o <<"\n">>)

\* main.py:282-301
MainAnalyzePullRequestReview(d) ==
    \/ HostReadFails(d, "analyze_pull_request_review")
    \/ \E review_body \in CommentBodies :
          MainAnalysis(d, "analyze_pull_request_review",
              <<"Analyze the following pull request review:\n\n">>
              \o review_body \o <<"\n">>)

\* main.py:304-324
MainAnalyzeReviewThread(d) ==
    \/ HostReadFails(d, "analyze_review_thread")
    \/ \E comments \in ThreadPool :
          MainAnalysis(d, "analyze_review_thread",
              <<"Analyze the following pull request review thread:\n\n">>
              \o Join(Bodies(comments), <<"\n", "\n">>) \o <<"\n">>)

(***************************************************************************)
(* The reply analyses of utils.py (utils.py:193-270), which handlers.py    *)
(* calls.                                                                  *)
(***************************************************************************)
\* The parameters of utils.analyze_review_comment (utils.py:193-194) and the
\* arguments handlers.py passes (handlers.py:45).
AnalyzeReviewCommentParams ==
    <<"repo_name", "pr_number", "comment_id", "path", "position", "commit_id">>

AnalyzeReviewCommentArgs == <<"repo_name", "pr_number", "comment_id">>

\* A call binds when it gives every required positional parameter.
CallBinds(params, args) == Len(args) = Len(params)

\* handlers.py:45 -> utils.py:193: the call raises TypeError before the body
\* of analyze_review_comment is entered.
UtilsAnalyzeReviewComment(d) ==
    /\ ~CallBinds(AnalyzeReviewCommentParams, AnalyzeReviewCommentArgs)
    /\ Set(d, "done", <<>>, <<>>, entered[d], calls[d], prompts[d], posted[d],
           Raised(ev[d].via, "TypeError: missing arguments"))

\* The end of utils.py's review and thread analyses: the backend is called,
\* its stripped answer is posted as a reply to `target`.
UtilsReply(d, fn, prompt, kind, target) ==
    LET en == Append(entered[d], EntryPoint(fn, ev[d], ev[d].id))
        ca == Bump(Bump(calls[d], "host"), "generate")
        pm == Append(prompts[d], prompt)
    IN  \/ Set(d, "done", <<>>, <<>>, en, ca, pm, posted[d],
               Raised(ev[d].via, "BackendError"))
        \/ \E r \in BackendReplies :
              \/ /\ target = 0
                 /\ Set(d, "done", <<>>, <<>>, en, ca, pm, posted[d],
                        Raised(ev[d].via, "IndexError"))
              \/ /\ target # 0
                 /\ Set(d, "done", <<>>, <<>>, en, Bump(ca, "publish"), pm,
                        Append(posted[d],
                               [kind |-> kind, number |-> ev[d].number,
                                target |-> target, body |-> Strip(r)]),
                        Completed(ev[d]))
              \/ /\ target # 0
                 /\ Set(d, "done", <<>>, <<>>, en, Bump(ca, "publish"), pm,
                        posted[d], Raised(ev[d].via, "PublishError"))

\* utils.py:228-247
UtilsAnalyzePullRequestReview(d) ==
    \/ HostReadFails(d, "analyze_pull_request_review")
    \/ \E review_body \in CommentBodies :
          LET pr == Format(ANALYZE_PULL_REQUEST_REVIEW_PROMPT,
                           [x \in {"{review_body}"} |-> review_body])
          IN  /\ pr.ok
              /\ UtilsReply(d, "analyze_pull_request_review", pr.text,
                            "review_reply", ev[d].id)

\* utils.py:250-270; the reply goes to thread.comments[-1], which raises
\* IndexError (target 0 here) when the thread has no comment.
UtilsAnalyzeReviewThread(d) ==
    \/ HostReadFails(d, "analyze_review_thread")
    \/ \E comments \in ThreadPool :
          LET pr == Format(ANALYZE_REVIEW_THREAD_PROMPT,
                           [x \in {"{thread_comments}"} |->
                               Join(Bodies(comments), <<"\n", "\n">>)])
          IN  /\ pr.ok
              /\ UtilsReply(d, "analyze_review_thread", pr.text,
                            "comment_reply",
                            IF comments = <<>> THEN 0
                            ELSE comments[Len(comments)].id)

(***************************************************************************)
(* The event handlers (main.py:25-97, handlers.py:12-81) and the webhook   *)
(* (main.py:419-451).                                                      *)
(***************************************************************************)
\* One of the four handle_..._event coroutines, chosen by the event type:
\* main.py's when the webhook dispatched, handlers.py's when called directly.
EventHandler(d) ==
    LET event == ev[d]
    IN  \/ /\ event.action \notin TriggerActions(event.hdr)
           /\ Finish(d, Completed(event))
        \/ /\ event.action \in TriggerActions(event.hdr)
           /\ event.hdr = "pull_request"
           /\ ReviewPullRequest(d)
        \/ /\ event.action \in TriggerActions(event.hdr)
           /\ event.hdr = "pull_request_review_comment"
           /\ IF event.via = "webhook" THEN MainAnalyzeReviewComment(d)
              ELSE UtilsAnalyzeReviewComment(d)
        \/ /\ event.action \in TriggerActions(event.hdr)
           /\ event.hdr = "pull_request_review"
           /\ IF event.via = "webhook" THEN MainAnalyzePullRequestReview(d)
              ELSE UtilsAnalyzePullRequestReview(d)
        \/ /\ event.action \in TriggerActions(event.hdr)
           /\ event.hdr = "pull_request_review_thread"
           /\ IF event.via = "webhook" THEN MainAnalyzeReviewThread(d)
              ELSE UtilsAnalyzeReviewThread(d)

\* The values a new delivery starts with.
Fresh(d, p) == Set(d, p, <<>>, <<>>, <<>>, NoCalls, <<>>, <<>>, NoResp)

\* A request reaches POST /github-webhook; handle_github_event starts and
\* suspends in request.json() (main.py:429).
Receive(d) ==
    /\ boot = "serving"
    /\ pc[d] = "idle"
    /\ \/ \E hdr \in Headers, action \in Actions, number \in PullNumbers,
             id \in ObjectIds :
             ev' = Upd(ev, d, [via |-> "webhook", hdr |-> hdr, json |-> TRUE,
                               action |-> action, repo |-> RepoName,
                               number |-> number, id |-> id])
       \/ \E hdr \in Headers :
             ev' = Upd(ev, d, [NoEvent EXCEPT !.via = "webhook", !.hdr = hdr])
    /\ Fresh(d, "received")
    /\ UNCHANGED <<bootVars, pureVars>>

\* A ping test that compares with the capitalised name.
IsPingCapitalised(event_type) == event_type = "Ping"

\* if event_type == 'ping' (main.py:432)
IsPing(event_type) == event_type = "ping"

\* The last response, built without its status.
UnsupportedResponseNoStatus == Response(200, "Unsupported event")

\* web.Response(status=400, text="Unsupported event") (main.py:451)
UnsupportedResponse == Response(400, "Unsupported event")

\* handle_github_event once request.json() returns or raises (main.py:429):
\* the header is read, then comes the chain of ifs, each of which returns.
HandleGithubEvent(d) ==
    /\ pc[d] = "received"
    /\ UNCHANGED <<bootVars, ev, pureVars>>
    /\ LET event_type == EventType(ev[d].hdr)
       IN  \/ /\ ~ev[d].json
              /\ Finish(d, Raised("webhook", "JSONDecodeError"))
           \/ /\ ev[d].json
              /\ IsPing(event_type)
              /\ Finish(d, Response(200, "Pong"))
           \/ /\ ev[d].json
              /\ ~IsPing(event_type)
              /\ event_type \in RecognizedTypes
              /\ EventHandler(d)
           \/ /\ ev[d].json
              /\ ~IsPing(event_type)
              /\ event_type \notin RecognizedTypes
              /\ Finish(d, UnsupportedResponse)

\* A caller that imported handlers.py (and with it utils.py) calls one of
\* its four handlers with an event.
CallHandler(d) ==
    /\ utils_backend # "none"
    /\ pc[d] = "idle"
    /\ \E hdr \in RecognizedTypes, action \in Actions, number \in PullNumbers,
          id \in ObjectIds :
          ev' = Upd(ev, d, [via |-> "handlers", hdr |-> hdr, json |-> TRUE,
                            action |-> action, repo |-> RepoName,
                            number |-> number, id |-> id])
    /\ Fresh(d, "called")
    /\ UNCHANGED <<bootVars, pureVars>>

\* The called handler of handlers.py runs to its first suspension or its end.
RunHandler(d) ==
    /\ pc[d] = "called"
    /\ UNCHANGED <<bootVars, ev, pureVars>>
    /\ EventHandler(d)

\* The outcome has gone to the caller and the coroutine is gone: nothing of
\* the delivery is kept.
Release(d) ==
    /\ pc[d] = "done"
    /\ ev' = Upd(ev, d, NoEvent)
    /\ Fresh(d, "idle")
    /\ UNCHANGED <<bootVars, pureVars>>

(***************************************************************************)
(* The program: start-up, then deliveries handled one after another.       *)
(***************************************************************************)
\* The slot that takes the deliveries when they come one at a time.
OneAtATime == {1}

Next ==
    \/ LoadUtils
    \/ LoadMain
    \/ CreateApp
    \/ RunApp
    \/ \E d \in OneAtATime :
          \/ Receive(d)
          \/ HandleGithubEvent(d)
          \/ CallHandler(d)
          \/ RunHandler(d)
          \/ FetchReturn(d)
          \/ Release(d)

Spec == Init /\ [][Next]_vars

(***************************************************************************)
(* The served application with deliveries in flight at the same time: the  *)
(* coroutines of handle_github_event interleave at their suspensions.      *)
(***************************************************************************)
InitConcurrent ==
    /\ env = [OPENAI_API_KEY |-> Unset, WATSONX_API_KEY |-> "key",
              WATSONX_PROJECT_ID |-> "project"]
    /\ boot = "serving"
    /\ utils_backend = NewBackend
    /\ main_backend = NewBackend
    /\ IdleDeliveries
    /\ sr_items = <<>>
    /\ sr_out = NotCalled
    /\ HelpersIdle

\* Receive for the deliveries of pull_request events, each for a pull
\* request that no other delivery in flight is for.
ReceivePullRequest(d) ==
    /\ boot = "serving"
    /\ pc[d] = "idle"
    /\ \E action \in {"opened", "closed"}, number \in PullNumbers :
          /\ \A e \in Slots \ {d} : pc[e] = "idle" \/ ev[e].number # number
          /\ ev' = Upd(ev, d, [via |-> "webhook", hdr |-> "pull_request",
                               json |-> TRUE, action |-> action,
                               repo |-> RepoName, number |-> number,
                               id |-> 7])
    /\ Fresh(d, "received")
    /\ UNCHANGED <<bootVars, pureVars>>

NextConcurrent ==
    \E d \in Slots :
        \/ ReceivePullRequest(d)
        \/ HandleGithubEvent(d)
        \/ FetchReturn(d)
        \/ Release(d)

SpecConcurrent == InitConcurrent /\ [][NextConcurrent]_vars

(***************************************************************************)
(* summarize_reviews applied to every list of up to MaxItems items.        *)
(***************************************************************************)
InitSummarize ==
    /\ env = [OPENAI_API_KEY |-> Unset, WATSONX_API_KEY |-> "key",
              WATSONX_PROJECT_ID |-> "project"]
    /\ boot = "start"
    /\ utils_backend = "none"
    /\ main_backend = "none"
    /\ IdleDeliveries
    /\ sr_items \in SeqsUpTo(ItemPool, MaxItems)
    /\ sr_out = NotCalled
    /\ HelpersIdle

CallSummarize ==
    /\ sr_out = NotCalled
    /\ sr_out' = SummarizeReviews(sr_items)
    /\ UNCHANGED <<sr_items, sysVars, hpVars>>

NextSummarize == CallSummarize

SpecSummarize == InitSummarize /\ [][NextSummarize]_vars


(***************************************************************************)
(* helpers.py: find_changed_functions and extract_function_code.           *)
(***************************************************************************)
\* s.startswith(prefix)
StartsWith(s, prefix) ==
    Len(s) >= Len(prefix) /\ SubSeq(s, 1, Len(prefix)) = prefix

RECURSIVE SplitStr(_, _)
\* s.split(sep) with a separator: the pieces between its occurrences, found
\* from the left; a text without the separator is one piece.
SplitStr(s, sep) ==
    LET at == {p \in 1..(Len(s) - Len(sep) + 1) :
                  SubSeq(s, p, p + Len(sep) - 1) = sep}
    IN  IF at = {} THEN <<s>>
        ELSE LET p == CHOOSE q \in at : \A r \in at : q <= r
             IN  <<SubSeq(s, 1, p - 1)>>
                 \o SplitStr(SubSeq(s, p + Len(sep), Len(s)), sep)

NewLine == <<"\n">>

\* "def "
DefPrefix == <<"d","e","f"," ">>

\* f"def {function_name}("
DefOf(function_name) == DefPrefix \o function_name \o <<"(">>

\* "    return" and "    raise"
ReturnPrefix == <<" "," "," "," ","r","e","t","u","r","n">>
RaisePrefix == <<" "," "," "," ","r","a","i","s","e">>

\* function_name = None
None == <<"<None>">>

\* changed_functions = {}
EmptyDict == [k \in {} |-> <<>>]

\* d[key] = value
Store(d, key, value) ==
    [k \in DOMAIN d \cup {key} |-> IF k = key THEN value ELSE d[k]]

\* line.split("def ")[1].split("(")[0]
FunctionNameOf(line) == SplitStr(SplitStr(line, DefPrefix)[2], <<"(">>)[1]

\* The locals of find_changed_functions before its loop (helpers.py:44-46).
FcfStart ==
    [changed_functions |-> EmptyDict, function_name |-> None,
     function_diff |-> <<>>]

\* A round of the loop that does not store the fragment of the function it
\* leaves when a new definition line begins.
FcfLineDropsPrevious(st, line) ==
    IF StartsWith(line, DefPrefix)
    THEN [changed_functions |-> st.changed_functions,
          function_name |-> FunctionNameOf(line),
          function_diff |-> line \o NewLine]
    ELSE IF st.function_name # None
    THEN [st EXCEPT !.function_diff = @ \o line \o NewLine]
    ELSE st

\* One round of the loop of find_changed_functions (helpers.py:48-55).
FcfLine(st, line) ==
    IF StartsWith(line, DefPrefix)
    THEN [changed_functions |->
              IF st.function_name # None
              THEN Store(st.changed_functions, st.function_name,
                         st.function_diff)
              ELSE st.changed_functions,
          function_name |-> FunctionNameOf(line),
          function_diff |-> line \o NewLine]
    ELSE IF st.function_name # None
    THEN [st EXCEPT !.function_diff = @ \o line \o NewLine]
    ELSE st

RECURSIVE FcfLoop(_, _)
FcfLoop(st, lines) ==
    IF lines = <<>> THEN st
    ELSE FcfLoop(FcfLine(st, Head(lines)), Tail(lines))

\* find_changed_functions (helpers.py:34-57).  It reads and writes nothing
\* but its locals: it is a function of file_diff alone.
FindChangedFunctions(file_diff) ==
    LET st == FcfLoop(FcfStart, SplitStr(file_diff, NewLine))
    IN  IF st.function_name # None
        THEN Store(st.changed_functions, st.function_name, st.function_diff)
        ELSE st.changed_functions


\* The locals of extract_function_code before its loop (helpers.py:71-72).
EfcStart == [function_code |-> <<>>, inside_function |-> FALSE]

\* The test that ends a unit (helpers.py:78-79).
IsTerminator(line) ==
    \/ StartsWith(line, ReturnPrefix)
    \/ StartsWith(line, RaisePrefix)
    \/ line = <<>>

\* A round of the loop that leaves the unit before its terminator line is
\* added.
EfcLineStopsBefore(st, line, function_name) ==
    LET inside == st.inside_function \/ StartsWith(line, DefOf(function_name))
    IN  IF inside /\ ~IsTerminator(line)
        THEN [function_code |-> st.function_code \o line \o NewLine,
              inside_function |-> TRUE]
        ELSE [st EXCEPT !.inside_function = FALSE]

\* One round of the loop of extract_function_code (helpers.py:74-80).
EfcLine(st, line, function_name) ==
    LET inside == st.inside_function \/ StartsWith(line, DefOf(function_name))
    IN  IF inside
        THEN [function_code |-> st.function_code \o line \o NewLine,
              inside_function |-> ~IsTerminator(line)]
        ELSE [st EXCEPT !.inside_function = inside]

RECURSIVE EfcLoop(_, _, _)
EfcLoop(st, lines, function_name) ==
    IF lines = <<>> THEN st
    ELSE EfcLoop(EfcLine(st, Head(lines), function_name), Tail(lines),
                 function_name)

\* extract_function_code (helpers.py:60-81)
ExtractFunctionCode(file_content, function_name) ==
    EfcLoop(EfcStart, SplitStr(file_content, NewLine),
            function_name).function_code

(***************************************************************************)
(* The two helpers applied to every text of up to MaxLines lines.          *)
(***************************************************************************)
\* The lines the texts are made of: three definition lines, the two kinds
\* of terminal statement, an empty line and a line that is none of these.
LinePool ==
    { <<"d","e","f"," ","f","(">>,
      <<"d","e","f"," ","g","(">>,
      <<"d","e","f"," ","k","(">>,
      <<" "," "," "," ","r","e","t","u","r","n">>,
      <<" "," "," "," ","r","a","i","s","e">>,
      <<>>,
      <<" ","x">> }

\* The names extract_function_code is asked for; no line defines h.
NamePool == { <<"f">>, <<"g">>, <<"h">> }

InitHelpers ==
    /\ env = [OPENAI_API_KEY |-> Unset, WATSONX_API_KEY |-> "key",
              WATSONX_PROJECT_ID |-> "project"]
    /\ boot = "start"
    /\ utils_backend = "none"
    /\ main_backend = "none"
    /\ IdleDeliveries
    /\ sr_items = <<>>
    /\ sr_out = NotCalled
    /\ hp_text \in {Join(lines, NewLine) :
                        lines \in SeqsUpTo(LinePool, MaxLines)}
    /\ hp_done = "none"
    /\ hp_name = <<>>
    /\ hp_out = <<>>

CallFindChangedFunctions ==
    /\ hp_done = "none"
    /\ hp_done' = "find_changed_functions"
    /\ hp_out' = FindChangedFunctions(hp_text)
    /\ UNCHANGED <<hp_text, hp_name, sysVars, srVars>>

CallExtractFunctionCode ==
    /\ hp_done = "none"
    /\ \E function_name \in NamePool :
          /\ hp_name' = function_name
          /\ hp_out' = ExtractFunctionCode(hp_text, function_name)
    /\ hp_done' = "extract_function_code"
    /\ UNCHANGED <<hp_text, sysVars, srVars>>

NextHelpers == CallFindChangedFunctions \/ CallExtractFunctionCode

SpecHelpers == InitHelpers /\ [][NextHelpers]_vars


(***************************************************************************)
(* The function-granular mode of utils.py: review_file_function,           *)
(* analyze_function_change and summarize_function_reviews.                 *)
(***************************************************************************)
ANALYZE_FUNCTION_CHANGE_PROMPT ==
    <<"\nAnalyze the following function change in ", "{filename}",
      ", based on the similar commits and the code changes:\nOriginal function:\n",
      "{original_function_code}", "\nChanges:\n", "{function_diff}",
      "\nPrior similar commits:\n", "{similar_commit_texts}", "\n">>

RECURSIVE KeysInOrder(_, _)
\* The keys of the dict find_changed_functions returns, in the order
\* functions.items() yields them: the order in which the names first occur
\* in the definition lines.
KeysInOrder(lines, seen) ==
    IF lines = <<>> THEN <<>>
    ELSE IF /\ StartsWith(Head(lines), DefPrefix)
            /\ FunctionNameOf(Head(lines)) \notin seen
    THEN <<FunctionNameOf(Head(lines))>>
         \o KeysInOrder(Tail(lines), seen \cup {FunctionNameOf(Head(lines))})
    ELSE KeysInOrder(Tail(lines), seen)

\* What the backend does with one call: an answer, or a failure.
BackendAnswers == BackendReplies \cup {<<"BackendError">>}

\* utils.analyze_function_change (utils.py:166-190) with the answer the
\* backend gives if it is called.
AnalyzeFunctionChange(filename, function_name, original_function_code, function_diff, answer) ==
    LET pr == Format(ANALYZE_FUNCTION_CHANGE_PROMPT,
                     [x \in {"{filename}", "{function_name}",
                             "{original_function_code}", "{function_diff}"} |->
                         CASE x = "{filename}" -> <<filename>>
                           [] x = "{function_name}" -> function_name
                           [] x = "{original_function_code}" ->
                                 original_function_code
                           [] x = "{function_diff}" -> function_diff])
    IN  IF ~pr.ok
        THEN [ok |-> FALSE, error |-> "KeyError: similar_commit_texts",
              generate |-> 0, review |-> <<>>]
        ELSE IF answer = <<"BackendError">>
        THEN [ok |-> FALSE, error |-> "BackendError", generate |-> 1,
              review |-> <<>>]
        ELSE [ok |-> TRUE, error |-> "", generate |-> 1,
              review |-> [function_name |-> function_name,
                          review |-> Strip(answer)]]

RECURSIVE FunctionLoop(_, _, _, _, _, _)
\* The loop of review_file_function over functions.items() (utils.py:147-154):
\* st holds function_reviews and the number of backend calls so far.
FunctionLoop(st, filename, file_content, functions, names, answers) ==
    IF names = <<>> \/ ~st.ok THEN st
    ELSE LET one == AnalyzeFunctionChange(filename, Head(names),
                        ExtractFunctionCode(file_content, Head(names)),
                        functions[Head(names)], Head(answers))
         IN  FunctionLoop([ok |-> one.ok, error |-> one.error,
                           generate |-> st.generate + one.generate,
                           function_reviews |->
                               IF one.ok
                               THEN Append(st.function_reviews, one.review)
                               ELSE st.function_reviews],
                          filename, file_content, functions, Tail(names),
                          Tail(answers))

\* review_file_function (utils.py:132-163) for a file, given the host's
\* answer to the content request and the backend's answers to the calls:
\* the dict it returns, or the exception that leaves it.
ReviewFileFunction(file, file_data, answers) ==
    LET got == GetFileContent(file_data)
        functions == FindChangedFunctions(file.diff)
        names == KeysInOrder(SplitStr(file.diff, NewLine), {})
        st == FunctionLoop([ok |-> TRUE, error |-> "", generate |-> 0,
                            function_reviews |-> <<>>],
                           file.filename, got.text, functions, names,
                           answers)
    IN  IF ~got.ok
        THEN [ok |-> FALSE, error |-> got.error, generate |-> 0,
              result |-> <<>>]
        ELSE IF ~st.ok
        THEN [ok |-> FALSE, error |-> st.error, generate |-> st.generate,
              result |-> <<>>]
        ELSE [ok |-> TRUE, error |-> "", generate |-> st.generate,
              result |-> [filename |-> file.filename, status |-> file.status,
                          changes |-> file.changes,
                          additions |-> file.additions,
                          deletions |-> file.deletions,
                          reviews |-> st.function_reviews]]


\* The f-string of a function's line, "- **Function <name>:** <review>"; the
\* backquotes it puts around the name are written ' here.
FunctionLine(review) ==
    <<"- **Function '">> \o review.function_name \o <<"':** ">>
    \o review.review

RECURSIVE FunctionLines(_)
FunctionLines(reviews) ==
    IF reviews = <<>> THEN <<>>
    ELSE <<FunctionLine(Head(reviews))>> \o FunctionLines(Tail(reviews))

RECURSIVE FunctionSummaryParts(_)
\* The list summary of summarize_function_reviews after its loops.
FunctionSummaryParts(results) ==
    IF results = <<>> THEN <<>>
    ELSE <<Heading(Head(results))>>
         \o FunctionLines(Head(results).review)
         \o FunctionSummaryParts(Tail(results))

RECURSIVE FunctionIssuesCount(_)
\* issues_count of summarize_function_reviews after its loops.
FunctionIssuesCount(results) ==
    IF results = <<>> THEN 0
    ELSE IssuesCount(Head(results).review)
         + FunctionIssuesCount(Tail(results))

\* summarize_function_reviews(file_reviews) (utils.py:303-333), results
\* being its argument: the inner loop reads
\* file_review['review'], which raises KeyError for a dict without that key.
SummarizeFunctionReviews(results) ==
    IF \E i \in DOMAIN results : "review" \notin DOMAIN results[i]
    THEN [ok |-> FALSE, error |-> "KeyError: review", summary |-> <<>>,
          issues_count |-> 0, rating |-> ""]
    ELSE [ok |-> TRUE, error |-> "",
          summary |-> Join(FunctionSummaryParts(results), <<"\n">>),
          issues_count |-> FunctionIssuesCount(results),
          rating |-> RatingOf(FunctionIssuesCount(results))]

(***************************************************************************)
(* The function-granular mode applied to a changed file with every diff of *)
(* up to MaxLines lines, and the summary of what it returns.               *)
(***************************************************************************)
\* The file's content at the head revision: one function in three lines.
FunctionModeContent ==
    <<"d","e","f"," ","f","(","\n"," ","x","\n",
      " "," "," "," ","r","e","t","u","r","n">>

\* The changed file whose diff is the text hp_text.
FunctionModeFile ==
    [filename |-> "a.py", status |-> "modified", changes |-> 3,
     additions |-> 2, deletions |-> 1, diff |-> hp_text]

InitFunctionMode == InitHelpers

CallReviewFileFunction ==
    /\ hp_done = "none"
    /\ hp_done' = "review_file_function"
    /\ LET names == KeysInOrder(SplitStr(hp_text, NewLine), {})
       IN  \E file_data \in { [content |-> B64Encode(FunctionModeContent)],
                              [message |-> "Not Found"] },
              answers \in [1..Len(names) -> BackendAnswers] :
              hp_out' = ReviewFileFunction(FunctionModeFile, file_data, answers)
    /\ UNCHANGED <<hp_text, hp_name, sysVars, srVars>>

CallSummarizeFunctionReviews ==
    /\ hp_done = "review_file_function"
    /\ hp_out.ok
    /\ hp_done' = "summarize_function_reviews"
    /\ sr_items' = <<hp_out.result>>
    /\ sr_out' = SummarizeFunctionReviews(<<hp_out.result>>)
    /\ UNCHANGED <<hp_text, hp_name, hp_out, sysVars>>

NextFunctionMode == CallReviewFileFunction \/ CallSummarizeFunctionReviews

SpecFunctionMode == InitFunctionMode /\ [][NextFunctionMode]_vars


(***************************************************************************)
(* Properties.                                                             *)
(***************************************************************************)
\* The handler of delivery d has run: the delivery is past its dispatch.
Dispatched(d) == pc[d] \in {"fetching", "done"}

\* Delivery d has called no collaborator, entered no orchestration entry
\* point, built no prompt and posted nothing.
NoSideEffect(d) ==
    /\ calls[d] = NoCalls
    /\ entered[d] = <<>>
    /\ prompts[d] = <<>>
    /\ posted[d] = <<>>
    /\ changed_files[d] = <<>>
    /\ file_reviews[d] = <<>>

\* Delivery d entered the orchestration entry point fn.
Entered(d, fn) == \E i \in DOMAIN entered[d] : entered[d][i].fn = fn

\* C1: a webhook delivery whose X-GitHub-Event header is ping, whatever the
\* payload its body decodes to, is answered "Pong" with status 200, and from
\* its arrival to its answer it calls neither the host, nor the content
\* fetcher, nor the backend, nor the publisher.
C1_PingAnswersPong ==
    \A d \in Slots :
        (ev[d].via = "webhook" /\ ev[d].json /\ ev[d].hdr = "ping") =>
            /\ pc[d] \in {"received", "done"}
            /\ NoSideEffect(d)
            /\ pc[d] = "done" =>
                  /\ resp[d].outcome = "response"
                  /\ resp[d].status = 200
                  /\ resp[d].text = "Pong"

C1_Witness ==
    \E d \in Slots :
        /\ ev[d].via = "webhook" /\ ev[d].json /\ ev[d].hdr = "ping"
        /\ ev[d].action = "opened" /\ ev[d].number = 2
        /\ pc[d] = "done" /\ resp[d].text = "Pong"

\* C2: a webhook delivery (a header and a decoded payload) whose event type
\* is neither ping nor one of the four recognized types is answered with
\* status 400 (not the 200 of a no-op) and calls none of the collaborators.
C2_UnsupportedIs400 ==
    \A d \in Slots :
        (/\ ev[d].via = "webhook"
         /\ ev[d].json
         /\ ev[d].hdr \notin {"<absent>", "ping", "pull_request",
                              "pull_request_review_comment",
                              "pull_request_review",
                              "pull_request_review_thread"}) =>
            /\ pc[d] \in {"received", "done"}
            /\ NoSideEffect(d)
            /\ pc[d] = "done" =>
                  /\ resp[d].outcome = "response"
                  /\ resp[d].status = 400
                  /\ resp[d].status # 200

C2_Witness ==
    \E d \in Slots :
        /\ ev[d].via = "webhook" /\ ev[d].json /\ ev[d].hdr = "issues"
        /\ pc[d] = "done" /\ resp[d].status = 400

\* C3: once its handler has run, a delivery has started the full review if
\* and only if it is a pull_request delivery whose action is opened, edited
\* or synchronize, and then review_pull_request was entered once, for the
\* payload's repository and pull-request number; before the handler runs and
\* for every other event type no full review is started.
C3_FullReviewIffTriggering ==
    \A d \in Slots :
        /\ ~Dispatched(d) => ~Entered(d, "review_pull_request")
        /\ Dispatched(d) =>
              (Entered(d, "review_pull_request") <=>
                  /\ ev[d].json
                  /\ ev[d].hdr = "pull_request"
                  /\ ev[d].action \in {"opened", "edited", "synchronize"})
        /\ Entered(d, "review_pull_request") =>
              entered[d] = <<[fn |-> "review_pull_request",
                              repo |-> ev[d].repo,
                              number |-> ev[d].number, id |-> 0]>>

C3_Witness ==
    \E d \in Slots :
        /\ ev[d].via = "webhook" /\ ev[d].hdr = "pull_request"
        /\ ev[d].action = "edited" /\ ev[d].number = 2
        /\ pc[d] = "fetching"
        /\ entered[d][1].fn = "review_pull_request"
        /\ entered[d][1].number = 2

\* The analysis entry point of each reply event type and the actions that
\* trigger it.
ReplyAnalysis ==
    { [type |-> "pull_request_review_comment", fn |-> "analyze_review_comment",
       actions |-> {"created", "edited"}],
      [type |-> "pull_request_review", fn |-> "analyze_pull_request_review",
       actions |-> {"submitted", "edited"}],
      [type |-> "pull_request_review_thread", fn |-> "analyze_review_thread",
       actions |-> {"resolved", "unresolved"}] }

\* C4: once its handler has run, a delivery has entered the analysis of a
\* reply event type if and only if it is of that type and its action is in
\* the type's subset, and the analysis was entered with the repository, the
\* pull-request number and the comment, review or thread identifier of the
\* payload.
C4_ReplyAnalysisIffTriggering ==
    \A d \in Slots : \A a \in ReplyAnalysis :
        /\ ~Dispatched(d) => ~Entered(d, a.fn)
        /\ Dispatched(d) =>
              (Entered(d, a.fn) <=>
                  (/\ ev[d].json
                   /\ ev[d].hdr = a.type
                   /\ ev[d].action \in a.actions))
        /\ Entered(d, a.fn) =>
              entered[d] = <<[fn |-> a.fn, repo |-> ev[d].repo,
                              number |-> ev[d].number, id |-> ev[d].id]>>

\* C5: a delivery of a recognized event type whose action is outside the
\* type's triggering subset ends without any call, prompt or publication;
\* the webhook answers it with status 200, and it does not raise.
C5_OtherActionIsNoOp ==
    \A d \in Slots :
        (/\ ev[d].via \in {"webhook", "handlers"}
         /\ ev[d].json
         /\ \/ ev[d].hdr = "pull_request"
               /\ ev[d].action \notin {"opened", "edited", "synchronize"}
            \/ ev[d].hdr = "pull_request_review_comment"
               /\ ev[d].action \notin {"created", "edited"}
            \/ ev[d].hdr = "pull_request_review"
               /\ ev[d].action \notin {"submitted", "edited"}
            \/ ev[d].hdr = "pull_request_review_thread"
               /\ ev[d].action \notin {"resolved", "unresolved"}) =>
            /\ pc[d] \in {"received", "called", "done"}
            /\ NoSideEffect(d)
            /\ pc[d] = "done" =>
                  /\ resp[d].outcome # "raised"
                  /\ resp[d].error = ""
                  /\ ev[d].via = "webhook" =>
                        resp[d].outcome = "response" /\ resp[d].status = 200

C5_Witness ==
    \E d \in Slots :
        /\ ev[d].via = "webhook" /\ ev[d].hdr = "pull_request"
        /\ ev[d].action = "closed"
        /\ pc[d] = "done" /\ resp[d].status = 200
        /\ resp[d].text = "Pull request event handled"

\* C6: the rating summarize_reviews returns is GOOD exactly when its issue
\* count is 0, NEEDS FURTHER TRIAGE exactly when the count is 1 or 2, and
\* BAD exactly when the count is 3 or more; it is always one of these three.
C6_RatingThresholds ==
    sr_out # NotCalled =>
        LET c == sr_out.issues_count
        IN  /\ sr_out.rating \in {"GOOD", "NEEDS FURTHER TRIAGE", "BAD"}
            /\ sr_out.rating = "GOOD" <=> c = 0
            /\ sr_out.rating = "NEEDS FURTHER TRIAGE" <=> (1 <= c /\ c <= 2)
            /\ sr_out.rating = "BAD" <=> c >= 3

C6_Witness ==
    /\ sr_out # NotCalled
    /\ sr_out.issues_count = 3
    /\ sr_out.rating = "BAD"

\* The marker in capitals.
IssueMarkerUpper == <<"I","S","S","U","E">>

\* The text holds the marker, each letter in either case.
HasMarkerAnyCase(text) ==
    \E p \in 1..(Len(text) - 4) :
        \A k \in 1..5 :
            text[p + k - 1] \in {IssueMarker[k], IssueMarkerUpper[k]}

\* How many times the text holds the marker.
MarkerOccurrences(text) ==
    Cardinality({p \in 1..(Len(text) - 4) :
        \A k \in 1..5 :
            text[p + k - 1] \in {IssueMarker[k], IssueMarkerUpper[k]}})

RatingRank(rating) ==
    CASE rating = "GOOD" -> 0
      [] rating = "NEEDS FURTHER TRIAGE" -> 1
      [] rating = "BAD" -> 2

\* C7: the issue count of summarize_reviews is the number of items whose
\* review text holds the marker "issue" in any letter case (an item counts
\* once, whatever the number of occurrences), and appending any item to the
\* list never lowers the rating in the order GOOD < NEEDS FURTHER TRIAGE <
\* BAD.
C7_CountAndMonotonic ==
    sr_out # NotCalled =>
        /\ sr_out.issues_count =
              Cardinality({i \in DOMAIN sr_items :
                              HasMarkerAnyCase(sr_items[i].review)})
        /\ \A item \in ItemPool :
              RatingRank(SummarizeReviews(Append(sr_items, item)).rating)
                 >= RatingRank(sr_out.rating)

C7_Witness ==
    /\ sr_out # NotCalled
    /\ Len(sr_items) = 2
    /\ MarkerOccurrences(sr_items[1].review) = 2
    /\ sr_items[2].review = <<"I","s","s","u","e",":"," ","x">>
    /\ sr_out.issues_count = 2

RECURSIVE BlockStart(_, _)
\* Where the i-th item's block starts in the summary: after the blocks of
\* the items before it, each followed by one line break.  A block is the
\* five pieces of the heading, a line break, the "- **Review:** " piece and
\* the review text.
BlockStart(items, i) ==
    IF i = 1 THEN 1
    ELSE BlockStart(items, i - 1) + 7 + Len(items[i - 1].review) + 1

\* C8: the summary text is, item after item in input order, the item's
\* heading, a line break and its review line, the blocks of consecutive
\* items being separated by one line break; nothing else is in it, so no
\* item is dropped, merged or moved, whatever its file name.
C8_SummaryKeepsOrder ==
    sr_out # NotCalled =>
        LET n == Len(sr_items)
            summary == sr_out.summary
        IN  /\ \A i \in 1..n :
                  LET b == BlockStart(sr_items, i)
                      e == b + 6 + Len(sr_items[i].review)
                  IN  /\ e <= Len(summary)
                      /\ SubSeq(summary, b, e) =
                            <<"### ", sr_items[i].filename, " (",
                              sr_items[i].status, "):", "\n",
                              "- **Review:** ">> \o sr_items[i].review
                      /\ i < n => summary[e + 1] = "\n"
            /\ Len(summary) =
                  IF n = 0 THEN 0
                  ELSE BlockStart(sr_items, n) + 6 + Len(sr_items[n].review)

C8_Witness ==
    /\ sr_out # NotCalled
    /\ Len(sr_items) = 3
    /\ sr_items[1].filename = "a.py" /\ sr_items[3].filename = "a.py"
    /\ sr_items[2].filename = "b.py"
    /\ sr_items[1].review # sr_items[3].review
    /\ Len(sr_out.summary) > 0

RECURSIVE PiecesAfter(_, _)
\* The pieces of a text that directly follow an occurrence of `mark`.
PiecesAfter(text, mark) ==
    IF Len(text) < 2 THEN <<>>
    ELSE (IF text[1] = mark THEN <<text[2]>> ELSE <<>>)
         \o PiecesAfter(Tail(text), mark)

RECURSIVE Filenames(_)
Filenames(files) ==
    IF files = <<>> THEN <<>>
    ELSE <<Head(files).filename>> \o Filenames(Tail(files))

\* C9: in every state of a full review the recorded file reviews are, entry
\* by entry, the first files of the host's changed-file list (same file,
\* same position), and a published review body lists the files under
\* "Changed Files" and heads the summary's sections in the host's order.
C9_ReviewsFollowHostOrder ==
    \A d \in Slots :
        /\ Len(file_reviews[d]) <= Len(changed_files[d])
        /\ \A i \in DOMAIN file_reviews[d] :
              /\ file_reviews[d][i].filename = changed_files[d][i].filename
              /\ file_reviews[d][i].status = changed_files[d][i].status
        /\ \A k \in DOMAIN posted[d] :
              posted[d][k].kind = "review" =>
                  /\ PiecesAfter(posted[d][k].body, "- **")
                        = Filenames(changed_files[d])
                  /\ PiecesAfter(posted[d][k].body, "### ")
                        = Filenames(changed_files[d])

C9_Witness ==
    \E d \in Slots :
        /\ pc[d] = "done"
        /\ Len(changed_files[d]) = 2
        /\ changed_files[d][1].filename = "c.md"
        /\ changed_files[d][2].filename = "a.py"
        /\ Len(file_reviews[d]) = 2
        /\ Len(posted[d]) = 1
        /\ posted[d][1].kind = "review"

\* C10: with neither WATSONX_API_KEY nor OPENAI_API_KEY set to a non-empty
\* value, the first construction of Backend raises: loading ends in the
\* configuration error, no backend object and no application ever exist,
\* and no delivery is ever dispatched.
C10_NoCredentialsNoStart ==
    (/\ env.WATSONX_API_KEY \in {Unset, ""}
     /\ env.OPENAI_API_KEY \in {Unset, ""}) =>
        /\ boot \in {"start", "config_error"}
        /\ utils_backend = "none"
        /\ main_backend = "none"
        /\ \A d \in Slots : pc[d] = "idle" /\ ev[d] = NoEvent

C10_Witness ==
    /\ env.WATSONX_API_KEY = Unset
    /\ env.OPENAI_API_KEY = ""
    /\ boot = "config_error"

(***************************************************************************)
(* Backend selection.                                                      *)
(***************************************************************************)
\* C11: once a backend object exists, it is the enterprise provider exactly
\* when the enterprise key and the project identifier are both present, and
\* it is the commercial provider when they are not both present and the
\* commercial key is.
C11_SelectionFollowsCredentials ==
    LET enterprise == /\ Truthy(env.WATSONX_API_KEY)
                      /\ Truthy(env.WATSONX_PROJECT_ID)
    IN  utils_backend # "none" =>
            /\ utils_backend = "watsonx" <=> enterprise
            /\ (~enterprise /\ Truthy(env.OPENAI_API_KEY)) =>
                  utils_backend = "openai"

(***************************************************************************)
(* Mentions in review comments.                                            *)
(***************************************************************************)
RECURSIVE Split(_)
\* str.split() without arguments: the maximal runs of characters that are
\* not whitespace.
Split(s) ==
    IF s = <<>> THEN <<>>
    ELSE IF Head(s) \in Whitespace THEN Split(Tail(s))
    ELSE LET n == CHOOSE k \in 1..Len(s) :
                     /\ \A i \in 1..k : s[i] \notin Whitespace
                     /\ k = Len(s) \/ s[k + 1] \in Whitespace
         IN  <<SubSeq(s, 1, n)>> \o Split(SubSeq(s, n + 1, Len(s)))

\* filter(lambda x: not x.startswith('@'), tokens)
WithoutMentions(tokens) == SelectSeq(tokens, LAMBDA x : Head(x) # "@")

\* utils.analyze_review_comment's removal of @mentions:
\* " ".join(filter(..., comment_body.split()))
RemoveMentions(comment_body) ==
    Join(WithoutMentions(Split(comment_body)), <<" ">>)

\* The tokens of a body that start with '@'.
Mentions(body) ==
    {Split(body)[i] : i \in {j \in DOMAIN Split(body) :
                                Head(Split(body)[j]) = "@"}}

\* C12: in a webhook delivery of a review comment with a triggering action,
\* no prompt handed to backend.generate holds a token of a comment body that
\* starts with '@'.
C12_NoMentionReachesBackend ==
    \A d \in Slots :
        (/\ ev[d].via = "webhook"
         /\ ev[d].json
         /\ ev[d].hdr = "pull_request_review_comment"
         /\ ev[d].action \in {"created", "edited"}) =>
            \A k \in DOMAIN prompts[d] :
                \A body \in CommentBodies :
                    \A mention \in Mentions(body) :
                        ~Contains(prompts[d][k], mention)

(***************************************************************************)
(* Publication and failures.                                               *)
(***************************************************************************)
\* The delivery has entered the full review.
InFullReview(d) ==
    \E k \in DOMAIN entered[d] : entered[d][k].fn = "review_pull_request"

\* C13: a delivery that entered the full review has called the host's
\* create-review at most once, whatever the number of its changed files;
\* when that one call failed nothing was posted, no second call was made,
\* and the delivery ended with the failure raised out of its handler.
C13_OnePublicationNoRetry ==
    \A d \in Slots :
        InFullReview(d) =>
            /\ calls[d].publish <= 1
            /\ Len(posted[d]) <= calls[d].publish
            /\ (calls[d].publish = 1 /\ posted[d] = <<>>) =>
                  /\ pc[d] = "done"
                  /\ resp[d].outcome = "raised"
                  /\ resp[d].error = "PublishError"

C13_Witness ==
    \E d \in Slots :
        /\ ev[d].via = "webhook"
        /\ InFullReview(d)
        /\ Len(changed_files[d]) = 2
        /\ Len(file_reviews[d]) = 2
        /\ calls[d].publish = 1
        /\ posted[d] = <<>>
        /\ resp[d].error = "PublishError"

\* A fetch or a backend call of the full review of d did not yield its file
\* review: more calls were made than reviews recorded.
FetchOrBackendFailed(d) ==
    /\ InFullReview(d)
    /\ \/ calls[d].fetch > Len(file_reviews[d])
       \/ calls[d].generate > Len(file_reviews[d])

\* A publication of d was attempted and nothing came of it.
PublicationFailed(d) == calls[d].publish > Len(posted[d])

\* C14: a webhook delivery that entered an orchestration entry point and
\* whose fetch, backend call or publication failed ends with the failure
\* raised out of handle_github_event (a 500), never with a 200; and one that
\* ends with 200 carries its type's confirmation and has published exactly
\* one artifact with exactly one publication call.
C14_FailuresAreNotSwallowed ==
    \A d \in Slots :
        (ev[d].via = "webhook" /\ pc[d] = "done" /\ entered[d] # <<>>) =>
            /\ (FetchOrBackendFailed(d) \/ PublicationFailed(d)
                    \/ posted[d] = <<>>) =>
                  /\ resp[d].outcome = "raised"
                  /\ resp[d].status = 500
            /\ resp[d].status = 200 =>
                  /\ resp[d].text = HandledText(ev[d].hdr)
                  /\ Len(posted[d]) = 1
                  /\ calls[d].publish = 1
                  /\ ~FetchOrBackendFailed(d)

C14_Witness ==
    \E d \in Slots :
        /\ ev[d].via = "webhook"
        /\ pc[d] = "done"
        /\ Len(changed_files[d]) = 2
        /\ Len(file_reviews[d]) = 1
        /\ calls[d].fetch = 2
        /\ calls[d].generate = 1
        /\ resp[d].status = 500

\* C15: a delivery whose content request was answered not-found by the host
\* does not end with the failure of that request: get_file_content returned,
\* the file got its review, and the delivery went on.
C15_MissingFileIsEmptyContent ==
    \A d \in Slots :
        calls[d].not_found > 0 =>
            /\ resp[d].error # "KeyError: content"
            /\ Len(file_reviews[d]) >= calls[d].not_found

(***************************************************************************)
(* The helpers of helpers.py.                                              *)
(***************************************************************************)
RECURSIVE LinesText(_)
\* The text of a run of lines, each with its line break.
LinesText(lines) ==
    IF lines = <<>> THEN <<>>
    ELSE Head(lines) \o NewLine \o LinesText(Tail(lines))

\* The lines of the text the helper was called on.
HpLines == SplitStr(hp_text, NewLine)

\* The positions of the definition lines of the text.
DefLines == {i \in DOMAIN HpLines : StartsWith(HpLines[i], DefPrefix)}

\* The least member of a non-empty set of positions.
First(S) == CHOOSE i \in S : \A j \in S : i <= j

\* The position before the next definition line after i, or the last line.
FragmentEnd(i) ==
    LET later == {j \in DefLines : j > i}
    IN  IF later = {} THEN Len(HpLines) ELSE First(later) - 1

\* C17: for a diff whose n definition lines name pairwise distinct functions,
\* find_changed_functions returns a mapping with exactly n keys, the names;
\* each name's value is its definition line and the lines after it up to
\* the line before the next definition line, or to the end of the input,
\* each with its line break: no line before the first definition line is in
\* a value, and without a definition line the mapping is empty.
C17_OneFragmentPerDefinition ==
    (/\ hp_done = "find_changed_functions"
     /\ \A i, j \in DefLines :
            i # j => FunctionNameOf(HpLines[i]) # FunctionNameOf(HpLines[j]))
    =>
        /\ Cardinality(DOMAIN hp_out) = Cardinality(DefLines)
        /\ DOMAIN hp_out = {FunctionNameOf(HpLines[i]) : i \in DefLines}
        /\ \A i \in DefLines :
              hp_out[FunctionNameOf(HpLines[i])]
                 = LinesText(SubSeq(HpLines, i, FragmentEnd(i)))
        /\ DefLines = {} => hp_out = EmptyDict

C17_Witness ==
    /\ hp_done = "find_changed_functions"
    /\ Len(HpLines) = 4
    /\ DefLines = {2, 3, 4}
    /\ Cardinality(DOMAIN hp_out) = 3

\* The positions of the lines that start the definition of hp_name.
Matches == {i \in DOMAIN HpLines : StartsWith(HpLines[i], DefOf(hp_name))}

\* The position of the first terminal statement or empty line after i, or
\* the last line when there is none.
UnitEnd(i) ==
    LET ends == {j \in (i + 1)..Len(HpLines) : IsTerminator(HpLines[j])}
    IN  IF ends = {} THEN Len(HpLines) ELSE First(ends)

\* C18: when the content holds two or more definition lines of the name,
\* extract_function_code returns the first unit only: the lines from the
\* first definition line to the line that ends that unit, and no line of a
\* later definition.
C18_OnlyFirstUnit ==
    (hp_done = "extract_function_code" /\ Cardinality(Matches) >= 2) =>
        hp_out = LinesText(SubSeq(HpLines, First(Matches),
                                  UnitEnd(First(Matches))))

OwnReviewOnly(d) ==
    /\ Len(file_reviews[d]) <= Len(changed_files[d])
    /\ Len(prompts[d]) <= Len(changed_files[d])
    /\ \A i \in DOMAIN file_reviews[d] :
          /\ \E r \in BackendReplies :
                file_reviews[d][i] = FileReview(changed_files[d][i], Strip(r))
          /\ prompts[d][i]
                = FileChangePrompt("webhook", changed_files[d][i],
                      FileContent(changed_files[d][i].filename)).text
    /\ \A k \in DOMAIN posted[d] :
          LET s == SummarizeReviews(file_reviews[d])
          IN  /\ Len(file_reviews[d]) = Len(changed_files[d])
              /\ Len(posted[d]) = 1
              /\ posted[d][k].number = ev[d].number
              /\ posted[d][k].body
                    = GenerateReviewBody(PullMetadata(ev[d].number),
                                         file_reviews[d], s.summary, s.rating)

\* C20: when two deliveries for different pull requests are in flight at the
\* same time, however their steps interleave, each has recorded and posted
\* only what belongs to its own pull request, as it would alone.
C20_ConcurrentReviewsDoNotMix ==
    \A d \in Slots :
        (/\ pc[d] # "idle"
         /\ \E e \in Slots \ {d} :
                pc[e] # "idle" /\ ev[e].number # ev[d].number) =>
            OwnReviewOnly(d)

\* One delivery has posted its review of two files while the other, for
\* another pull request and other files, is between its two files.
C20_Witness ==
    /\ ev[1].number # ev[2].number
    /\ pc[1] = "done" /\ Len(posted[1]) = 1 /\ Len(file_reviews[1]) = 2
    /\ pc[2] = "fetching" /\ Len(file_reviews[2]) = 1
    /\ Len(changed_files[2]) = 2
    /\ changed_files[1][1].filename # changed_files[2][1].filename
    /\ file_reviews[1][2].review # file_reviews[2][1].review

(***************************************************************************)
(* The course of the full review.                                          *)
(***************************************************************************)
\* C21: in a full review started by the webhook, the content of a file is
\* fetched before the backend is called for it and the next file is fetched
\* only after that call: the calls alternate, one prompt per backend call,
\* the i-th prompt being the one for the i-th changed file of the host's
\* list; and once the review is published, without any failure, the content
\* fetches, the backend calls and the recorded file reviews each number
\* exactly the changed files and the publication is the only one.
C21_OneFetchOneCallPerFileThenPublish ==
    \A d \in Slots :
        (ev[d].via = "webhook" /\ InFullReview(d)) =>
            LET n == Len(changed_files[d])
            IN  /\ calls[d].generate <= calls[d].fetch
                /\ calls[d].fetch <= calls[d].generate + 1
                /\ calls[d].fetch <= n
                /\ Len(prompts[d]) = calls[d].generate
                /\ Len(file_reviews[d]) <= calls[d].generate
                /\ \A i \in DOMAIN prompts[d] :
                      prompts[d][i]
                         = FileChangePrompt("webhook", changed_files[d][i],
                               FileContent(changed_files[d][i].filename)).text
                /\ calls[d].publish > 0 =>
                      /\ calls[d].publish = 1
                      /\ calls[d].fetch = n
                      /\ calls[d].generate = n
                      /\ Len(file_reviews[d]) = n

C21_Witness ==
    \E d \in Slots :
        /\ ev[d].via = "webhook"
        /\ InFullReview(d)
        /\ pc[d] = "done"
        /\ Len(changed_files[d]) = 2
        /\ calls[d].fetch = 2 /\ calls[d].generate = 2
        /\ calls[d].publish = 1 /\ Len(posted[d]) = 1
        /\ resp[d].status = 200

\* C22: a full review in which the content fetch or the backend call failed
\* for a file ended there: the failed call is the last fetch or backend call
\* of the delivery, nothing was published or attempted to be, and the
\* failure was raised out of the handler.
C22_FailureAbortsWholeReview ==
    \A d \in Slots :
        (pc[d] = "done" /\ FetchOrBackendFailed(d)) =>
            /\ calls[d].fetch = Len(file_reviews[d]) + 1
            /\ calls[d].generate <= Len(file_reviews[d]) + 1
            /\ calls[d].publish = 0
            /\ posted[d] = <<>>
            /\ resp[d].outcome = "raised"

C22_Witness ==
    \E d \in Slots :
        /\ ev[d].via = "webhook"
        /\ pc[d] = "done"
        /\ Len(changed_files[d]) = 2
        /\ Len(file_reviews[d]) = 1
        /\ calls[d].fetch = 2 /\ calls[d].generate = 2
        /\ resp[d].error = "BackendError"
        /\ posted[d] = <<>>

\* The failures that come from a collaborator: the host, the content fetch,
\* the backend, the publication.
CollaboratorErrors ==
    {"HostError", "ClientError", "KeyError: content", "BackendError",
     "PublishError"}

\* C23: a full review by utils.review_pull_request of a pull request with at
\* least one changed file, with no similar-commit context supplied and no
\* collaborator failing, ends with a prompt built and a backend call made
\* for every file and with the review published.
C23_ReviewWithoutSimilarCommits ==
    \A d \in Slots :
        (/\ ev[d].via = "handlers"
         /\ InFullReview(d)
         /\ pc[d] = "done"
         /\ Len(changed_files[d]) >= 1
         /\ resp[d].error \notin CollaboratorErrors) =>
            /\ Len(prompts[d]) = Len(changed_files[d])
            /\ calls[d].generate = Len(changed_files[d])
            /\ Len(posted[d]) = 1

(***************************************************************************)
(* The reply analyses.                                                     *)
(***************************************************************************)
\* Delivery d came through the webhook with a reply event type and one of
\* the type's triggering actions.
TriggersReplyAnalysis(d) ==
    /\ ev[d].via = "webhook"
    /\ ev[d].json
    /\ \E a \in ReplyAnalysis :
          ev[d].hdr = a.type /\ ev[d].action \in a.actions

\* C24: a webhook delivery of a triggering review-comment, review or thread
\* event in which no collaborator failed ends with the backend called exactly
\* once, exactly one reply published, its body the backend's text, and the
\* webhook's confirmation returned.
C24_OneCallOneReply ==
    \A d \in Slots :
        (/\ TriggersReplyAnalysis(d)
         /\ pc[d] = "done"
         /\ resp[d].error \notin CollaboratorErrors) =>
            /\ calls[d].generate = 1
            /\ Len(posted[d]) = 1
            /\ \E r \in BackendReplies : posted[d][1].body = Strip(r)
            /\ resp[d].status = 200

\* The text of a prompt between its heading and its closing line break.
PromptPayload(prompt) == SubSeq(prompt, 2, Len(prompt) - 1)

\* "\n\n": the end of a line and one blank line.
BlankLine == <<"\n", "\n">>

\* C25: a delivery of a review-thread event with a triggering action in
\* which no collaborator failed has handed the backend one prompt, which
\* holds the bodies of the thread's comments in thread order with a blank
\* line between them, and, the thread having a comment, has published one
\* reply, attached to the thread's last comment.
C25_ThreadPromptAndReplyTarget ==
    \A d \in Slots :
        (/\ ev[d].via \in {"webhook", "handlers"}
         /\ ev[d].json
         /\ ev[d].hdr = "pull_request_review_thread"
         /\ ev[d].action \in {"resolved", "unresolved"}
         /\ pc[d] = "done"
         /\ resp[d].error \notin CollaboratorErrors) =>
            /\ Len(prompts[d]) = 1
            /\ \E comments \in ThreadPool :
                  /\ PromptPayload(prompts[d][1])
                        = Join(Bodies(comments), BlankLine)
                  /\ comments # <<>> =>
                        /\ Len(posted[d]) = 1
                        /\ posted[d][1].target = comments[Len(comments)].id

(***************************************************************************)
(* The function-granular mode.                                             *)
(***************************************************************************)
\* C26: with no collaborator failing, review_file_function returns the
\* file's fields with one function review per function found in the diff,
\* having called the backend exactly once per function; and
\* summarize_function_reviews applied to the list of what it returned
\* succeeds, with the file's heading followed by its function reviews in
\* order and the rating given by the number of function reviews that
\* mention an issue.
C26_FunctionModeReviewsAndSummary ==
    /\ (/\ hp_done \in {"review_file_function", "summarize_function_reviews"}
        /\ hp_out.error \notin CollaboratorErrors) =>
          LET n == Cardinality(DOMAIN FindChangedFunctions(hp_text))
          IN  /\ hp_out.ok
              /\ hp_out.generate = n
              /\ hp_out.result.filename = FunctionModeFile.filename
              /\ Len(hp_out.result.reviews) = n
    /\ hp_done = "summarize_function_reviews" =>
          /\ sr_out.ok
          /\ sr_out.summary
                = Join(<<Heading(sr_items[1])>>
                       \o FunctionLines(sr_items[1].reviews), <<"\n">>)
          /\ sr_out.rating = RatingOf(IssuesCount(sr_items[1].reviews))

(***************************************************************************)
(* The same pull_request event delivered again, while an earlier delivery  *)
(* of it is in flight or has finished and its outcome is still at hand.    *)
(***************************************************************************)
\* A delivery of a pull_request event for the pull request that the other
\* delivery at hand is for: the same triggering event as before, or another
\* one.
Redeliver(d) ==
    /\ boot = "serving"
    /\ pc[d] = "idle"
    /\ \E action \in {"opened", "closed"}, number \in PullNumbers :
          /\ \A e \in Slots \ {d} : pc[e] = "idle" \/ ev[e].number = number
          /\ ev' = Upd(ev, d, [via |-> "webhook", hdr |-> "pull_request",
                               json |-> TRUE, action |-> action,
                               repo |-> RepoName, number |-> number,
                               id |-> 7])
    /\ Fresh(d, "received")
    /\ UNCHANGED <<bootVars, pureVars>>

NextRedelivery ==
    \E d \in Slots :
        \/ Redeliver(d)
        \/ HandleGithubEvent(d)
        \/ FetchReturn(d)
        \/ Release(d)

SpecRedelivery == InitConcurrent /\ [][NextRedelivery]_vars

\* The delivery in slot d was a triggering pull_request event and was
\* answered as handled.
ReviewedAndAnswered(d) ==
    /\ pc[d] = "done"
    /\ ev[d].hdr = "pull_request"
    /\ ev[d].action \in TriggerActions("pull_request")
    /\ resp[d] = Response(200, HandledText("pull_request"))

\* C27: nothing is remembered of the reviews already published.  Every
\* delivery of a triggering pull_request event that is answered as handled
\* has published one review of its pull request, whatever another delivery
\* of the same event did before it or does meanwhile: two such deliveries
\* give two reviews, and the review of each is made of its own files and
\* file reviews alone.
C27_EveryDeliveryPublishesAgain ==
    \A d \in Slots :
        ReviewedAndAnswered(d) =>
            /\ calls[d].publish = 1
            /\ Len(posted[d]) = 1
            /\ posted[d][1].kind = "review"
            /\ posted[d][1].number = ev[d].number
            /\ posted[d][1].body
                  = GenerateReviewBody(PullMetadata(ev[d].number),
                                       file_reviews[d],
                                       SummarizeReviews(file_reviews[d]).summary,
                                       SummarizeReviews(file_reviews[d]).rating)
            /\ calls[d].fetch = Len(changed_files[d])
            /\ calls[d].generate = Len(changed_files[d])

\* Two deliveries of the same triggering event have both been answered, and
\* each has published its own review.
C27_Witness ==
    /\ ReviewedAndAnswered(1)
    /\ ReviewedAndAnswered(2)
    /\ ev[1] = ev[2]
    /\ posted[1] # <<>>
    /\ posted[2] # <<>>
    /\ changed_files[1] # <<>>

(***************************************************************************)
(* Where a delivery gives the event loop back.                             *)
(***************************************************************************)
\* C28: the content fetch, the backend generate call and the publication
\* are each a suspension point of the delivery that makes them.  The step of
\* a delivery that issues one of these calls ends inside the call, with the
\* delivery unanswered and nothing done with the call's result yet, so that
\* another delivery can take steps before the call returns.
C28_NetworkCallsSuspend ==
    [][\A d \in Slots :
          /\ calls'[d].fetch > calls[d].fetch =>
                /\ pc'[d] = "fetching"
                /\ resp'[d] = NoResp
          /\ calls'[d].generate > calls[d].generate =>
                /\ file_reviews'[d] = file_reviews[d]
                /\ calls'[d].fetch = calls[d].fetch
                /\ calls'[d].publish = calls[d].publish
                /\ resp'[d] = NoResp
          /\ calls'[d].publish > calls[d].publish =>
                /\ posted'[d] = posted[d]
                /\ resp'[d] = NoResp]_vars

(***************************************************************************)
(* The pull request without changed files.                                 *)
(***************************************************************************)
\* The delivery in slot d ran the full review of a pull request whose file
\* list the host gave as empty, and no call to the host failed.
ReviewedNoFiles(d) ==
    /\ pc[d] = "done"
    /\ ev[d].hdr = "pull_request"
    /\ ev[d].action \in TriggerActions("pull_request")
    /\ Entered(d, "review_pull_request")
    /\ changed_files[d] = <<>>
    /\ resp[d].outcome # "raised"

\* C29: the full review of a pull request with no changed file asks for no
\* content and makes no backend call, and publishes one review all the
\* same: its list of changed files and its summary are empty and its rating
\* is GOOD.
C29_EmptyPullRequestStillReviewed ==
    \A d \in Slots :
        ReviewedNoFiles(d) =>
            /\ calls[d].fetch = 0
            /\ calls[d].generate = 0
            /\ prompts[d] = <<>>
            /\ calls[d].publish = 1
            /\ Len(posted[d]) = 1
            /\ posted[d][1].kind = "review"
            /\ posted[d][1].number = ev[d].number
            /\ posted[d][1].body
                  = GenerateReviewBody(PullMetadata(ev[d].number), <<>>, <<>>,
                                       "GOOD")

\* Such a review has been published, through the webhook.
C29_Witness ==
    /\ ReviewedNoFiles(1)
    /\ ev[1].via = "webhook"
    /\ posted[1] # <<>>
    /\ resp[1] = Response(200, HandledText("pull_request"))

(***************************************************************************)
(* The process started as the entry point of the action: the environment   *)
(* names an event and the file that holds it.                              *)
(***************************************************************************)
\* Values of GITHUB_EVENT_NAME: not set, the four recognized names, another.
EventNames == {Unset, "push"} \cup RecognizedTypes

InitEntryPoint ==
    /\ env \in [OPENAI_API_KEY : {Unset}, WATSONX_API_KEY : {"key"},
                WATSONX_PROJECT_ID : {"project"},
                GITHUB_EVENT_NAME : EventNames,
                GITHUB_EVENT_PATH : {Unset, "event.json"}]
    /\ boot = "start"
    /\ utils_backend = "none"
    /\ main_backend = "none"
    /\ IdleDeliveries
    /\ sr_items = <<>>
    /\ sr_out = NotCalled
    /\ HelpersIdle

NextEntryPoint ==
    \/ LoadUtils
    \/ LoadMain
    \/ CreateApp
    \/ RunApp
    \/ \E d \in OneAtATime :
          \/ Receive(d)
          \/ HandleGithubEvent(d)
          \/ FetchReturn(d)
          \/ Release(d)

SpecEntryPoint == InitEntryPoint /\ [][NextEntryPoint]_vars

\* C30: started as the entry point with a recognized event name, the
\* process has the event of the event file handled before it serves: once
\* the application serves with that event at hand, the matching handler has
\* been entered and has run to its end, and for a triggering action it has
\* called the host.
C30_EventHandledBeforeServing ==
    \A d \in Slots :
        (boot = "serving" /\ ev[d].via = "main") =>
            /\ ev[d].hdr = Getenv("GITHUB_EVENT_NAME")
            /\ resp[d].outcome \in {"returned", "raised"}
            /\ ev[d].action \in TriggerActions(ev[d].hdr) =>
                  /\ entered[d] # <<>>
                  /\ calls[d].host >= 1

====
